---- MODULE Spec2Model ----
(***************************************************************************)
(* Guestbook web application (src/app.py): three Flask handlers (index,    *)
(* add_message, health), the start-up schema initializer (init_db) and the *)
(* two connection retry helpers, running against a PostgreSQL store and a  *)
(* Redis cache that may fail at any call.                                  *)
(*                                                                         *)
(* Strings are sequences of characters, so that str.strip() is computed.   *)
(* Every call into a backing service (a connection attempt, a statement,   *)
(* a commit, INCR, PING) is one step whose outcome the environment picks.  *)
(***************************************************************************)
EXTENDS Integers, Sequences, FiniteSets, TLC

\* ---------------------------------------------------------------- bounds
MaxRequests == 2      \* requests served in one run, each on its own thread
MaxLen      == 2      \* longest raw form field
MaxRetries  == 4      \* largest attempt budget handed to a helper called directly
MaxDelay    == 2      \* largest delay handed to a helper called directly

\* ------------------------------------------------------ program constants
DefaultRetries == 5   \* def get_db_connection(retries: int = 5, ...)
DefaultDelay   == 2   \* def get_db_connection(..., delay: int = 2)
HealthRetries  == 1   \* get_db_connection(retries=1, delay=0)
HealthDelay    == 0

Main    == 0
Workers == 1..MaxRequests
Procs   == {Main} \cup Workers

Whitespace == {" "}
Alphabet   == {" ", "a"}
Strings    == UNION {[1..k -> Alphabet] : k \in 0..MaxLen}
Forms      == UNION {[S -> Strings] : S \in SUBSET {"author", "content"}}
EmptyForm  == [k \in {} |-> <<>>]

\* the forms posted while requests run concurrently: two that pass with
\* padding to trim, one with whitespace-only content, one without author
Submitted ==
  { [author |-> <<" ", "a">>, content |-> <<"a", " ">>],
    [author |-> <<"a", "a">>, content |-> <<"a">>],
    [author |-> <<"a">>, content |-> <<" ">>],
    [k \in {"content"} |-> <<"a">>] }

VARIABLES
  pc,       \* pc[p]: position of process p in its handler
  req,      \* req[p]: the request p is handling (kind and form fields)
  loc,      \* loc[p]: the handler's local variables
  call,     \* call[p]: the frame of the retry helper while p is inside it
  conn,     \* conn[p]: the psycopg2 connection p holds
  resp,     \* resp[p]: what the handler answered
  hist,     \* hist[p]: what happened to p's request (observation only)
  table,    \* committed rows of messages
  nextId,   \* the SERIAL sequence of messages.id
  schema,   \* the messages table exists
  counter,  \* value of guestbook:page_views in Redis
  shown,    \* values INCR returned, in order (observation only)
  acked     \* submissions answered with a redirect (observation only)

vars == <<pc, req, loc, call, conn, resp, hist, table, nextId, schema,
          counter, shown, acked>>

\* ------------------------------------------------------------ str.strip()
RECURSIVE lstrip(_)
lstrip(s) ==
  IF s = <<>> THEN s
  ELSE IF Head(s) \in Whitespace THEN lstrip(Tail(s)) ELSE s

RECURSIVE rstrip(_)
rstrip(s) ==
  IF s = <<>> THEN s
  ELSE IF s[Len(s)] \in Whitespace THEN rstrip(SubSeq(s, 1, Len(s) - 1)) ELSE s

strip(s) == rstrip(lstrip(s))

\* request.form.get(key, default)
FormGet(form, key, default) ==
  IF key \in DOMAIN form THEN form[key] ELSE default

\* the test with the content forgotten
RejectedAuthorOnly(author, content) == author = <<>>

\* `not author or not content`
Rejected(author, content) == author = <<>> \/ content = <<>>

\* ------------------------------------------------- connection retry helper
NoCall == [fn |-> "none", retries |-> 0, delay |-> 0, attempt |-> 0,
           phase |-> "none", tried |-> 0, failed |-> 0, slept |-> 0,
           waited |-> 0]

\* entering `for attempt in range(1, retries + 1)`
NewCall(fn, retries, delay) ==
  [fn |-> fn, retries |-> retries, delay |-> delay,
   attempt |-> IF retries >= 1 THEN 1 ELSE 0,
   phase |-> IF retries >= 1 THEN "try" ELSE "raised",
   tried |-> 0, failed |-> 0, slept |-> 0, waited |-> 0]

\* the sleep taken after the last attempt as well
SleepAfterEvery(attempt, retries) == attempt <= retries

\* `if attempt < retries:` guarding time.sleep(delay)
SleepAfter(attempt, retries) == attempt < retries

\* one pass through the loop body: the factory answers ok or raises the
\* error the helper catches; tried, failed, slept and waited count what the
\* call has done so far
TryConnect(c, ok) ==
  IF ok THEN [c EXCEPT !.phase = "returned", !.tried = @ + 1]
  ELSE IF SleepAfter(c.attempt, c.retries)
       THEN [c EXCEPT !.phase = "sleep", !.tried = @ + 1, !.failed = @ + 1]
       ELSE IF c.attempt + 1 <= c.retries
            THEN [c EXCEPT !.phase = "try", !.tried = @ + 1, !.failed = @ + 1,
                           !.attempt = @ + 1]
            ELSE [c EXCEPT !.phase = "raised", !.tried = @ + 1,
                           !.failed = @ + 1]

\* time.sleep(delay), then the next value of range(1, retries + 1) or the raise
Sleep(c) ==
  [c EXCEPT !.slept = @ + 1, !.waited = @ + c.delay,
            !.attempt = IF c.attempt + 1 <= c.retries THEN @ + 1 ELSE @,
            !.phase = IF c.attempt + 1 <= c.retries THEN "try" ELSE "raised"]

Service(fn) == IF fn = "get_db_connection" THEN "postgres" ELSE "redis"

\* psycopg2.connect(...) / redis.Redis(...).ping() inside the helper
GetConnTry(p) ==
  /\ call[p].phase = "try"
  /\ \E ok \in BOOLEAN : call' = [call EXCEPT ![p] = TryConnect(@, ok)]
  /\ UNCHANGED <<pc, req, loc, conn, resp, hist, table, nextId, schema,
                 counter, shown, acked>>

GetConnSleep(p) ==
  /\ call[p].phase = "sleep"
  /\ call' = [call EXCEPT ![p] = Sleep(@)]
  /\ UNCHANGED <<pc, req, loc, conn, resp, hist, table, nextId, schema,
                 counter, shown, acked>>

Finished(c) == c.phase \in {"returned", "raised"}

\* the helper run to its return or raise; outcomes[i] is what the factory
\* answers when it is invoked for the i-th time: the service is down for the
\* first n invocations and up from then on (what the factory would answer
\* after its first success is never asked; GetConnTry leaves every answer open)
RECURSIVE RunHelper(_, _)
RunHelper(c, outcomes) ==
  IF Finished(c) THEN c
  ELSE IF c.phase = "sleep" THEN RunHelper(Sleep(c), outcomes)
  ELSE RunHelper(TryConnect(c, outcomes[c.tried + 1]), outcomes)

Outcomes(retries) == {[i \in 1..retries |-> i > n] : n \in 0..retries}

get_db_connection(retries, delay, outcomes) ==
  RunHelper(NewCall("get_db_connection", retries, delay), outcomes)

get_redis_client(retries, delay, outcomes) ==
  RunHelper(NewCall("get_redis_client", retries, delay), outcomes)

\* --------------------------------------------------------- values and store
Unset  == [kind |-> "unset", value |-> 0]
NA     == [kind |-> "N/A", value |-> 0]           \* page_views = "N/A"
Num(n) == [kind |-> "int", value |-> n]

NoLoc == [author |-> <<>>, content |-> <<>>, page_views |-> Unset,
          messages |-> <<>>, error |-> "None",
          status |-> [status |-> "", postgres |-> "", redis |-> ""],
          http_code |-> 0]

NoConn   == [state |-> "none", pending |-> {}]
OpenConn == [state |-> "open", pending |-> {}]
\* conn.close(): the open transaction is rolled back
Close(c) == [state |-> "closed", pending |-> {}]

NoResp == [status |-> 0, body |-> "", fault |-> FALSE]
Response(status, body) == [status |-> status, body |-> body, fault |-> FALSE]
\* an exception leaves the handler: Flask turns it into a bare 500
Unhandled(exc) == [status |-> 500, body |-> exc, fault |-> TRUE]

\* touched: services the request called; retried: one acquisition took more
\* than one attempt; slept: it went through time.sleep; cacheFault, dbFault:
\* where a service failed it; rowId: the id its INSERT drew; seen: the
\* submissions acknowledged before it arrived
NoHist == [touched |-> {}, retried |-> FALSE, slept |-> FALSE,
           cacheFault |-> "none", dbFault |-> "none", rowId |-> 0, seen |-> {}]

\* what a finished helper call c adds to the record of the request
Observe(h, c) ==
  [h EXCEPT !.touched = IF c.tried > 0 THEN @ \cup {Service(c.fn)} ELSE @,
            !.retried = @ \/ c.tried > 1,
            !.slept = @ \/ c.slept > 0]

PgError    == "Could not connect to PostgreSQL after multiple retries."
RedisError == "Could not connect to Redis after multiple retries."

\* an increment that is lost
RedisIncrLost(v) == v

\* INCR guestbook:page_views
RedisIncr(v) == v + 1

\* INSERT INTO messages (author, content) VALUES (%s, %s): id from the SERIAL
\* sequence, created_at from NOW(), which advances with every insert
NewRow(id, author, content) ==
  [id |-> id, author |-> author, content |-> content, created_at |-> id]

\* a commit that never reaches the table
CommitNothing(tbl, pending) == tbl

\* conn.commit()
Commit(tbl, pending) == tbl \cup pending

RECURSIVE OrderByCreatedAtDesc(_)
OrderByCreatedAtDesc(rows) ==
  IF rows = {} THEN <<>>
  ELSE LET m == CHOOSE r \in rows : \A q \in rows : q.created_at <= r.created_at
       IN <<m>> \o OrderByCreatedAtDesc(rows \ {m})

\* SELECT author, content, created_at FROM messages ORDER BY created_at DESC
Select(tbl) ==
  LET s == OrderByCreatedAtDesc(tbl)
  IN [i \in 1..Len(s) |-> [author |-> s[i].author, content |-> s[i].content,
                            created_at |-> s[i].created_at]]

\* ------------------------------------------------------------------ init_db
\* conn = get_db_connection()
InitDbConnect ==
  /\ pc[Main] = "init_db"
  /\ \E outcomes \in Outcomes(DefaultRetries) :
       LET c == get_db_connection(DefaultRetries, DefaultDelay, outcomes)
       IN /\ IF c.phase = "returned"
             THEN /\ pc' = [pc EXCEPT ![Main] = "init_execute"]
                  /\ conn' = [conn EXCEPT ![Main] = OpenConn]
                  /\ resp' = resp
                  /\ hist' = [hist EXCEPT ![Main] = Observe(@, c)]
             ELSE /\ pc' = [pc EXCEPT ![Main] = "fatal"]
                  /\ resp' = [resp EXCEPT ![Main] = Unhandled(PgError)]
                  /\ hist' = [hist EXCEPT ![Main] =
                                [Observe(@, c) EXCEPT !.dbFault = "connect"]]
                  /\ conn' = conn
  /\ UNCHANGED <<req, loc, call, table, nextId, schema, counter, shown, acked>>

\* cur.execute(CREATE TABLE IF NOT EXISTS ...); on an error `finally` closes
InitDbExecute ==
  /\ pc[Main] = "init_execute"
  /\ \E ok \in BOOLEAN :
       IF ok
       THEN /\ pc' = [pc EXCEPT ![Main] = "init_commit"]
            /\ UNCHANGED <<conn, resp, hist>>
       ELSE /\ pc' = [pc EXCEPT ![Main] = "fatal"]
            /\ conn' = [conn EXCEPT ![Main] = Close(@)]
            /\ resp' = [resp EXCEPT ![Main] = Unhandled("psycopg2.Error")]
            /\ hist' = [hist EXCEPT ![Main].dbFault = "execute"]
  /\ UNCHANGED <<req, loc, call, table, nextId, schema, counter, shown, acked>>

\* conn.commit(); finally: conn.close(); then app.run(...)
InitDbCommit ==
  /\ pc[Main] = "init_commit"
  /\ \E ok \in BOOLEAN :
       IF ok
       THEN /\ pc' = [pc EXCEPT ![Main] = "serving"]
            /\ schema' = TRUE
            /\ UNCHANGED <<resp, hist>>
       ELSE /\ pc' = [pc EXCEPT ![Main] = "fatal"]
            /\ schema' = schema
            /\ resp' = [resp EXCEPT ![Main] = Unhandled("psycopg2.Error")]
            /\ hist' = [hist EXCEPT ![Main].dbFault = "commit"]
  /\ conn' = [conn EXCEPT ![Main] = Close(@)]
  /\ UNCHANGED <<req, loc, call, table, nextId, counter, shown, acked>>

\* the server is up and the next request arrives on a thread of its own
Accepting(p) ==
  /\ p \in Workers
  /\ pc[Main] = "serving"
  /\ pc[p] = "idle"
  /\ \A q \in Workers : q < p => pc[q] # "idle"


\* -------------------------------------------------------------- GET / index
BeginIndex(p) ==
  /\ Accepting(p)
  /\ pc' = [pc EXCEPT ![p] = "index_redis"]
  /\ req' = [req EXCEPT ![p] = [kind |-> "index", form |-> EmptyForm]]
  /\ hist' = [hist EXCEPT ![p].seen = acked]
  /\ UNCHANGED <<loc, call, conn, resp, table, nextId, schema, counter, shown,
                 acked>>

\* r = get_redis_client(), or `except ConnectionError` sets "N/A"
IndexRedis(p) ==
  /\ pc[p] = "index_redis"
  /\ \E outcomes \in Outcomes(DefaultRetries) :
       LET c == get_redis_client(DefaultRetries, DefaultDelay, outcomes)
       IN IF c.phase = "returned"
          THEN /\ pc' = [pc EXCEPT ![p] = "index_incr"]
               /\ hist' = [hist EXCEPT ![p] = Observe(@, c)]
               /\ loc' = loc
          ELSE /\ pc' = [pc EXCEPT ![p] = "index_db"]
               /\ loc' = [loc EXCEPT ![p].page_views = NA]
               /\ hist' = [hist EXCEPT ![p] =
                             [Observe(@, c) EXCEPT !.cacheFault = "connect"]]
  /\ UNCHANGED <<req, call, conn, resp, table, nextId, schema, counter, shown,
                 acked>>

\* page_views = r.incr(PAGE_VIEW_KEY); a redis.exceptions error raised here is
\* no builtin ConnectionError and leaves the handler
IndexIncr(p) ==
  /\ pc[p] = "index_incr"
  /\ \E ok \in BOOLEAN :
       IF ok
       THEN /\ counter' = RedisIncr(counter)
            /\ shown' = Append(shown, counter')
            /\ loc' = [loc EXCEPT ![p].page_views = Num(counter')]
            /\ pc' = [pc EXCEPT ![p] = "index_db"]
            /\ UNCHANGED <<resp, hist>>
       ELSE /\ pc' = [pc EXCEPT ![p] = "done"]
            /\ resp' = [resp EXCEPT ![p] = Unhandled("redis.exceptions.ConnectionError")]
            /\ hist' = [hist EXCEPT ![p].cacheFault = "incr"]
            /\ UNCHANGED <<counter, shown, loc>>
  /\ UNCHANGED <<req, call, conn, table, nextId, schema, acked>>

\* conn = get_db_connection(), or `except ConnectionError` sets error; render
IndexDb(p) ==
  /\ pc[p] = "index_db"
  /\ \E outcomes \in Outcomes(DefaultRetries) :
       LET c == get_db_connection(DefaultRetries, DefaultDelay, outcomes)
       IN IF c.phase = "returned"
          THEN /\ pc' = [pc EXCEPT ![p] = "index_select"]
               /\ conn' = [conn EXCEPT ![p] = OpenConn]
               /\ hist' = [hist EXCEPT ![p] = Observe(@, c)]
               /\ UNCHANGED <<loc, resp>>
          ELSE /\ pc' = [pc EXCEPT ![p] = "done"]
               /\ loc' = [loc EXCEPT ![p].error = "Database unavailable: " \o PgError]
               /\ resp' = [resp EXCEPT ![p] = Response(200, "page")]
               /\ hist' = [hist EXCEPT ![p] =
                             [Observe(@, c) EXCEPT !.dbFault = "connect"]]
               /\ conn' = conn
  /\ UNCHANGED <<req, call, table, nextId, schema, counter, shown, acked>>

\* cur.execute(SELECT ...); messages = cur.fetchall(); conn.close(); render.
\* A psycopg2 error raised here skips conn.close() and leaves the handler
IndexSelect(p) ==
  /\ pc[p] = "index_select"
  /\ \E ok \in BOOLEAN :
       IF ok
       THEN /\ loc' = [loc EXCEPT ![p].messages = Select(table)]
            /\ conn' = [conn EXCEPT ![p] = Close(@)]
            /\ resp' = [resp EXCEPT ![p] = Response(200, "page")]
            /\ hist' = hist
       ELSE /\ resp' = [resp EXCEPT ![p] = Unhandled("psycopg2.Error")]
            /\ hist' = [hist EXCEPT ![p].dbFault = "select"]
            /\ UNCHANGED <<loc, conn>>
  /\ pc' = [pc EXCEPT ![p] = "done"]
  /\ UNCHANGED <<req, call, table, nextId, schema, counter, shown, acked>>

\* ---------------------------------------------- POST /messages add_message
\* author = request.form.get("author", "").strip(), content likewise, and
\* `if not author or not content: return ..., 400`
BeginAdd(p, form) ==
  /\ Accepting(p)
  /\ LET author  == strip(FormGet(form, "author", <<>>))
         content == strip(FormGet(form, "content", <<>>))
     IN /\ loc' = [loc EXCEPT ![p].author = author, ![p].content = content]
        /\ IF Rejected(author, content)
           THEN /\ pc' = [pc EXCEPT ![p] = "done"]
                /\ resp' = [resp EXCEPT ![p] = Response(400, "Author and content are required.")]
           ELSE /\ pc' = [pc EXCEPT ![p] = "add_db"]
                /\ resp' = resp
  /\ req' = [req EXCEPT ![p] = [kind |-> "add", form |-> form]]
  /\ UNCHANGED <<call, conn, hist, table, nextId, schema, counter, shown,
                 acked>>

\* conn = get_db_connection(), or `except ConnectionError` answers 500
AddDb(p) ==
  /\ pc[p] = "add_db"
  /\ \E outcomes \in Outcomes(DefaultRetries) :
       LET c == get_db_connection(DefaultRetries, DefaultDelay, outcomes)
       IN IF c.phase = "returned"
          THEN /\ pc' = [pc EXCEPT ![p] = "add_execute"]
               /\ conn' = [conn EXCEPT ![p] = OpenConn]
               /\ hist' = [hist EXCEPT ![p] = Observe(@, c)]
               /\ resp' = resp
          ELSE /\ pc' = [pc EXCEPT ![p] = "done"]
               /\ resp' = [resp EXCEPT ![p] = Response(500, "Could not save message: " \o PgError)]
               /\ hist' = [hist EXCEPT ![p] =
                             [Observe(@, c) EXCEPT !.dbFault = "connect"]]
               /\ conn' = conn
  /\ UNCHANGED <<req, loc, call, table, nextId, schema, counter, shown, acked>>

\* cur.execute(INSERT ...) inside the connection's transaction
AddExecute(p) ==
  /\ pc[p] = "add_execute"
  /\ \E ok \in BOOLEAN :
       IF ok
       THEN /\ conn' = [conn EXCEPT ![p].pending =
                          @ \cup {NewRow(nextId, loc[p].author, loc[p].content)}]
            /\ nextId' = nextId + 1
            /\ hist' = [hist EXCEPT ![p].rowId = nextId]
            /\ pc' = [pc EXCEPT ![p] = "add_commit"]
            /\ resp' = resp
       ELSE /\ pc' = [pc EXCEPT ![p] = "done"]
            /\ resp' = [resp EXCEPT ![p] = Unhandled("psycopg2.Error")]
            /\ hist' = [hist EXCEPT ![p].dbFault = "execute"]
            /\ UNCHANGED <<conn, nextId>>
  /\ UNCHANGED <<req, loc, call, table, schema, counter, shown, acked>>

\* conn.commit()
AddCommit(p) ==
  /\ pc[p] = "add_commit"
  /\ \E ok \in BOOLEAN :
       IF ok
       THEN /\ table' = Commit(table, conn[p].pending)
            /\ conn' = [conn EXCEPT ![p].pending = {}]
            /\ pc' = [pc EXCEPT ![p] = "add_close"]
            /\ UNCHANGED <<resp, hist>>
       ELSE /\ pc' = [pc EXCEPT ![p] = "done"]
            /\ resp' = [resp EXCEPT ![p] = Unhandled("psycopg2.Error")]
            /\ hist' = [hist EXCEPT ![p].dbFault = "commit"]
            /\ UNCHANGED <<table, conn>>
  /\ UNCHANGED <<req, loc, call, nextId, schema, counter, shown, acked>>

\* conn.close(); logger.info(...); return redirect(url_for("index"))
AddReturn(p) ==
  /\ pc[p] = "add_close"
  /\ conn' = [conn EXCEPT ![p] = Close(@)]
  /\ resp' = [resp EXCEPT ![p] = Response(302, "redirect:index")]
  /\ acked' = acked \cup {[author |-> FormGet(req[p].form, "author", <<>>),
                           content |-> FormGet(req[p].form, "content", <<>>),
                           id |-> hist[p].rowId]}
  /\ pc' = [pc EXCEPT ![p] = "done"]
  /\ UNCHANGED <<req, loc, call, hist, table, nextId, schema, counter, shown>>


\* -------------------------------------------------------------- GET /health
\* status = {"status": "ok", "postgres": "ok", "redis": "ok"}; http_code = 200
BeginHealth(p) ==
  /\ Accepting(p)
  /\ pc' = [pc EXCEPT ![p] = "health_db"]
  /\ req' = [req EXCEPT ![p] = [kind |-> "health", form |-> EmptyForm]]
  /\ loc' = [loc EXCEPT ![p].status = [status |-> "ok", postgres |-> "ok",
                                       redis |-> "ok"],
                        ![p].http_code = 200]
  /\ UNCHANGED <<call, conn, resp, hist, table, nextId, schema, counter,
                 shown, acked>>

\* the branch with `http_code = 503` forgotten
DegradedKeepsCode(l, service, exc) ==
  [l EXCEPT !.status = [@ EXCEPT ![service] = "error: " \o exc,
                                 !.status = "degraded"]]

\* the `except Exception` branches of health
Degraded(l, service, exc) ==
  [l EXCEPT !.status = [@ EXCEPT ![service] = "error: " \o exc,
                                 !.status = "degraded"],
            !.http_code = 503]

\* conn = get_db_connection(retries=1, delay=0); conn.close()
HealthDb(p) ==
  /\ pc[p] = "health_db"
  /\ \E outcomes \in Outcomes(HealthRetries) :
       LET c == get_db_connection(HealthRetries, HealthDelay, outcomes)
       IN IF c.phase = "returned"
          THEN /\ conn' = [conn EXCEPT ![p] = Close(OpenConn)]
               /\ hist' = [hist EXCEPT ![p] = Observe(@, c)]
               /\ loc' = loc
          ELSE /\ loc' = [loc EXCEPT ![p] = Degraded(@, "postgres", PgError)]
               /\ hist' = [hist EXCEPT ![p] =
                             [Observe(@, c) EXCEPT !.dbFault = "connect"]]
               /\ conn' = conn
  /\ pc' = [pc EXCEPT ![p] = "health_redis"]
  /\ UNCHANGED <<req, call, resp, table, nextId, schema, counter, shown, acked>>

\* r = get_redis_client(retries=1, delay=0)
HealthRedis(p) ==
  /\ pc[p] = "health_redis"
  /\ \E outcomes \in Outcomes(HealthRetries) :
       LET c == get_redis_client(HealthRetries, HealthDelay, outcomes)
       IN IF c.phase = "returned"
          THEN /\ pc' = [pc EXCEPT ![p] = "health_ping"]
               /\ hist' = [hist EXCEPT ![p] = Observe(@, c)]
               /\ UNCHANGED <<loc, resp>>
          ELSE /\ pc' = [pc EXCEPT ![p] = "done"]
               /\ loc' = [loc EXCEPT ![p] = Degraded(@, "redis", RedisError)]
               /\ resp' = [resp EXCEPT ![p] = Response(loc'[p].http_code, "json")]
               /\ hist' = [hist EXCEPT ![p] =
                             [Observe(@, c) EXCEPT !.cacheFault = "connect"]]
  /\ UNCHANGED <<req, call, conn, table, nextId, schema, counter, shown, acked>>

\* r.ping(); return jsonify(status), http_code
HealthPing(p) ==
  /\ pc[p] = "health_ping"
  /\ \E ok \in BOOLEAN :
       IF ok
       THEN UNCHANGED <<loc, hist>>
       ELSE /\ loc' = [loc EXCEPT ![p] = Degraded(@, "redis", "redis.exceptions.ConnectionError")]
            /\ hist' = [hist EXCEPT ![p].cacheFault = "ping"]
  /\ resp' = [resp EXCEPT ![p] = Response(loc'[p].http_code, "json")]
  /\ pc' = [pc EXCEPT ![p] = "done"]
  /\ UNCHANGED <<req, call, conn, table, nextId, schema, counter, shown, acked>>

\* ------------------------------------------------------------ specification
Idle ==
  /\ loc = [p \in Procs |-> NoLoc]
  /\ conn = [p \in Procs |-> NoConn]
  /\ resp = [p \in Procs |-> NoResp]
  /\ hist = [p \in Procs |-> NoHist]
  /\ table = {}
  /\ nextId = 1
  /\ counter = 0
  /\ shown = <<>>
  /\ acked = {}

\* `if __name__ == "__main__": init_db()` against a store that may already
\* hold the table
Init ==
  /\ Idle
  /\ pc = [p \in Procs |-> IF p = Main THEN "init_db" ELSE "idle"]
  /\ req = [p \in Procs |-> [kind |-> IF p = Main THEN "init_db" ELSE "none",
                             form |-> EmptyForm]]
  /\ call = [p \in Procs |-> NoCall]
  /\ schema \in BOOLEAN

Next ==
  \/ InitDbConnect
  \/ InitDbExecute
  \/ InitDbCommit
  \/ \E p \in Workers : BeginIndex(p)
  \/ \E p \in Workers : IndexRedis(p)
  \/ \E p \in Workers : IndexIncr(p)
  \/ \E p \in Workers : IndexDb(p)
  \/ \E p \in Workers : IndexSelect(p)
  \/ \E p \in Workers, form \in Submitted : BeginAdd(p, form)
  \/ \E p \in Workers : AddDb(p)
  \/ \E p \in Workers : AddExecute(p)
  \/ \E p \in Workers : AddCommit(p)
  \/ \E p \in Workers : AddReturn(p)
  \/ \E p \in Workers : BeginHealth(p)
  \/ \E p \in Workers : HealthDb(p)
  \/ \E p \in Workers : HealthRedis(p)
  \/ \E p \in Workers : HealthPing(p)

Spec == Init /\ [][Next]_vars

\* A helper called directly, with any budget and delay
HelperInit ==
  /\ Idle
  /\ pc = [p \in Procs |-> IF p = Main THEN "helper" ELSE "idle"]
  /\ req = [p \in Procs |-> [kind |-> IF p = Main THEN "helper" ELSE "none",
                             form |-> EmptyForm]]
  /\ \E fn \in {"get_db_connection", "get_redis_client"},
        retries \in 0..MaxRetries, delay \in 0..MaxDelay :
       call = [p \in Procs |-> IF p = Main THEN NewCall(fn, retries, delay)
                               ELSE NoCall]
  /\ schema = FALSE

HelperNext ==
  \/ GetConnTry(Main)
  \/ GetConnSleep(Main)

HelperSpec == HelperInit /\ [][HelperNext]_vars

\* the factory and time.sleep both come back: a running helper takes its
\* next step
FairHelperSpec == HelperSpec /\ WF_vars(HelperNext)

\* One POST /messages with any form, on a server that is up
AddInit ==
  /\ Idle
  /\ pc = [p \in Procs |-> IF p = Main THEN "serving" ELSE "idle"]
  /\ req = [p \in Procs |-> [kind |-> IF p = Main THEN "init_db" ELSE "none",
                             form |-> EmptyForm]]
  /\ call = [p \in Procs |-> NoCall]
  /\ schema = TRUE

AddNext ==
  \/ \E form \in Forms : BeginAdd(1, form)
  \/ AddDb(1)
  \/ AddExecute(1)
  \/ AddCommit(1)
  \/ AddReturn(1)

AddSpec == AddInit /\ [][AddNext]_vars

\* ------------------------------------------------------------------ claims
IsDone(p, kind) == pc[p] = "done" /\ req[p].kind = kind

\* the field is missing, empty or made of whitespace only
Blank(form, key) ==
  key \notin DOMAIN form \/ \A i \in DOMAIN form[key] : form[key][i] \in Whitespace

\* rows written by INSERT, committed or not
Written == table \cup UNION {conn[p].pending : p \in Procs}

\* C1: every finished GET / is a 200 page, whatever failed and wherever:
\* a cache failure shows "N/A", a store failure shows no messages and an
\* error note.
C1_IndexAlwaysRenders ==
  \A p \in Workers :
    IsDone(p, "index") =>
      /\ resp[p] = Response(200, "page")
      /\ hist[p].cacheFault # "none" => loc[p].page_views = NA
      /\ hist[p].dbFault # "none" =>
           loc[p].messages = <<>> /\ loc[p].error # "None"

\* C2: a POST /messages with a blank author or content is answered 400
\* at once, never touches the store and writes no row; so no row, committed
\* or pending, has a blank author or content.
C2_BlankRejected ==
  /\ \A p \in Workers :
       (req[p].kind = "add"
          /\ (Blank(req[p].form, "author") \/ Blank(req[p].form, "content"))) =>
         /\ pc[p] = "done"
         /\ resp[p] = Response(400, "Author and content are required.")
         /\ hist[p].touched = {}
         /\ conn[p] = NoConn
         /\ hist[p].rowId = 0
  /\ \A r \in Written :
       /\ \E i \in DOMAIN r.author : r.author[i] \notin Whitespace
       /\ \E i \in DOMAIN r.content : r.content[i] \notin Whitespace

C2_Witness ==
  \E p \in Workers :
    /\ IsDone(p, "add")
    /\ resp[p].status = 400
    /\ "content" \in DOMAIN req[p].form
    /\ Len(req[p].form["content"]) > 0
    /\ ~ Blank(req[p].form, "author")


Valid(p) ==
  ~ Blank(req[p].form, "author") /\ ~ Blank(req[p].form, "content")

\* committed rows that carry the id the INSERT of p drew
RowsOf(p) == {r \in table : hist[p].rowId # 0 /\ r.id = hist[p].rowId}

\* C3: a finished valid POST /messages was answered with the redirect
\* only with exactly one row of it committed, and whenever the store failed it
\* was answered with the plain-text 500 and left no row.
C3_RedirectIffStored ==
  \A p \in Workers :
    (IsDone(p, "add") /\ Valid(p)) =>
      /\ resp[p].fault = FALSE
      /\ resp[p].status = 302 => Cardinality(RowsOf(p)) = 1
      /\ hist[p].dbFault # "none" =>
           /\ resp[p] = Response(500, "Could not save message: " \o PgError)
           /\ RowsOf(p) = {}
      /\ resp[p].status = 500 => RowsOf(p) = {}

\* the entries of a rendered list, and the acknowledged submissions,
\* that carry one author and content
Listed(p, author, content) ==
  {i \in DOMAIN loc[p].messages :
     loc[p].messages[i].author = author /\ loc[p].messages[i].content = content}

Acknowledged(p, author, content) ==
  {a \in hist[p].seen : strip(a.author) = author /\ strip(a.content) = content}

C5_HealthReportsBoth ==
  \A p \in Workers :
    /\ req[p].kind = "health" => resp[p].fault = FALSE
    /\ IsDone(p, "health") =>
         LET dbOk    == hist[p].dbFault = "none"
             cacheOk == hist[p].cacheFault = "none"
             st      == loc[p].status
         IN /\ resp[p].body = "json"
            /\ (st.status = "ok" /\ resp[p].status = 200) <=> (dbOk /\ cacheOk)
            /\ ~ (dbOk /\ cacheOk) => (st.status = "degraded" /\ resp[p].status = 503)
            /\ st.postgres = IF dbOk THEN "ok" ELSE "error: " \o PgError
            /\ st.redis \in (IF cacheOk THEN {"ok"}
                             ELSE {"error: " \o RedisError,
                                   "error: redis.exceptions.ConnectionError"})
            /\ hist[p].touched = {"postgres", "redis"}

C5_Witness ==
  \E p \in Workers :
    /\ IsDone(p, "health")
    /\ hist[p].dbFault # "none"
    /\ hist[p].cacheFault = "none"
    /\ resp[p].status = 503

\* requests whose INCR succeeded
Counted == {p \in Workers : req[p].kind = "index" /\ loc[p].page_views.kind = "int"}

\* C6: the counter equals the number of GET / whose INCR succeeded, the
\* values INCR returned are 1, 2, 3, ... in order, the values displayed are
\* pairwise distinct; and a step changes the counter only by adding one.
C6_CounterInv ==
  /\ counter = Cardinality(Counted)
  /\ Len(shown) = counter
  /\ \A i \in DOMAIN shown : shown[i] = i
  /\ \A p \in Counted : loc[p].page_views.value \in 1..counter
  /\ \A p, q \in Counted : p # q => loc[p].page_views # loc[q].page_views

C6_CounterStep ==
  counter' # counter =>
    /\ counter' = counter + 1
    /\ \E p \in Workers : pc[p] = "index_incr" /\ pc'[p] = "index_db"

C6_CounterExact == []C6_CounterInv /\ [][C6_CounterStep]_vars

C6_Witness ==
  \E p, q \in Counted :
    /\ loc[p].page_views.value = 1
    /\ loc[q].page_views.value = 2
    /\ pc[p] = "index_db"

\* C7: in a finished GET / a failure of one service leaves the other's
\* result on the page: with the cache failed and the store not, the page is
\* rendered from a SELECT; with the store failed and the cache not, the page
\* shows the incremented number.
C7_Independent ==
  \A p \in Workers :
    IsDone(p, "index") =>
      /\ (hist[p].cacheFault # "none" /\ hist[p].dbFault = "none") =>
           /\ resp[p] = Response(200, "page")
           /\ "postgres" \in hist[p].touched
           /\ conn[p].state = "closed"
      /\ (hist[p].dbFault # "none" /\ hist[p].cacheFault = "none") =>
           /\ resp[p] = Response(200, "page")
           /\ loc[p].page_views.kind = "int"

Max(a, b) == IF a >= b THEN a ELSE b

\* C8: a helper call never makes more attempts than its budget, returns at
\* its first success, sleeps only between two attempts, raises exactly when
\* `retries` attempts have all failed (at once for a budget of zero), and
\* comes to its return or raise.
C8_HelperInv ==
  LET c == call[Main]
  IN /\ c.tried <= c.retries
     /\ c.waited = c.slept * c.delay
     /\ c.phase = "try" => (c.attempt = c.tried + 1 /\ c.failed = c.tried
                            /\ c.slept = c.tried)
     /\ c.phase = "sleep" => (c.attempt = c.tried /\ c.failed = c.tried
                              /\ c.slept = c.tried - 1 /\ c.tried < c.retries)
     /\ c.phase = "returned" => (c.tried >= 1 /\ c.failed = c.tried - 1
                                 /\ c.slept = c.tried - 1)
     /\ c.phase = "raised" => (c.tried = c.retries /\ c.failed = c.retries
                               /\ c.slept = Max(c.retries - 1, 0))

C8_HelperTerminates == []C8_HelperInv /\ <>Finished(call[Main])

C8_Witness ==
  /\ call[Main].phase = "raised"
  /\ call[Main].retries >= 2
  /\ call[Main].slept = call[Main].retries - 1

\* C9: no request handler makes a second connection attempt to a service
\* or goes through the sleep between attempts.
C9_HandlersFailFast ==
  \A p \in Workers : ~ hist[p].retried /\ ~ hist[p].slept

\* C10: init_db, index, add_message and health leave no connection open
\* when they have answered or terminated.
C10_ConnClosed ==
  \A p \in Procs :
    pc[p] \in {"done", "serving", "fatal"} => conn[p].state # "open"

====
